---- MODULE Spec2Model ----
(***************************************************************************)
(* The AttentionVisualizer component: a text field feeding a single-head   *)
(* scaled dot-product attention pipeline (tokens, embeddings, Q/K/V,       *)
(* scores, scaled scores, softmax weights, output), recomputed by every    *)
(* render.                                                                 *)
(*                                                                         *)
(* Numbers.  Every real number of the program is held as an integer count  *)
(* of thousandths (0.58 is 580, -0.3 is -300); a product of two such       *)
(* numbers is a count of millionths.  A text is a sequence of UTF-16 code  *)
(* units, as a JavaScript string is.  JavaScript indexes from 0 and TLA+   *)
(* sequences from 1: element i of a JavaScript array is element i+1 here.  *)
(***************************************************************************)
EXTENDS Integers, Sequences, FiniteSets

VARIABLES
    inputText,         \* useState: the text of the input field
    currentStep,       \* useState: index of the tutorial step shown
    isPlaying,         \* useState: the tour is running
    hoveredToken,      \* useState: index of the hovered token, or Null
    selectedToken,     \* useState: index of the clicked token, or Null
    showMath,          \* useState: the math panels are shown
    animationPhase,    \* useState: phase of the flow animation
    rendered,          \* the component function has run on the current state
    tokens,            \* what the last render computed, stage by stage
    embeddings,
    Q,
    K,
    V,
    scores,
    scaledScores,
    attentionWeights,
    output,
    row,               \* softmax called on its own: the row passed
    shift,             \*   a constant added to every entry of the row
    probs,             \*   softmax(row)
    probsShifted,      \*   softmax(row + shift)
    storyTokens,       \* generateAttentionStory called on its own: the token list
    storyRow,          \*   the row of weights passed
    storyIndex,        \*   the index of the token the story is about
    story,             \*   the sentence returned
    left,              \* matMul called on its own: the matrix A
    right,             \*   the matrix B
    product,           \*   matMul(A, B)
    value,             \* the 2-decimal rounding applied on its own: the value
    rounded,           \*   Math.round(value * 100) / 100
    called             \* the function called on its own has returned

uiVars == <<currentStep, isPlaying, hoveredToken, selectedToken, showMath, animationPhase>>
engineVars == <<tokens, embeddings, Q, K, V, scores, scaledScores, attentionWeights, output>>
softmaxVars == <<row, shift, probs, probsShifted>>
storyVars == <<storyTokens, storyRow, storyIndex, story>>
matMulVars == <<left, right, product>>
roundVars == <<value, rounded>>

-----------------------------------------------------------------------------
(* Bounds and input sets *)

MaxTextLen == 5

\* space, tab, 'a', and the two code units of U+1F600 (a character above 0xFFFF)
Alphabet == {32, 9, 97, 55357, 56832}

ShortTexts == UNION {[1..n -> Alphabet] : n \in 0..MaxTextLen}

\* "The cat sat on the mat"
DefaultText == <<84, 104, 101, 32, 99, 97, 116, 32, 115, 97, 116, 32, 111, 110, 32,
                 116, 104, 101, 32, 109, 97, 116>>

\* the sentences offered by the example buttons of the empty state
EmptyStateExamples ==
    { DefaultText,
      \* "She loves reading books"
      <<83, 104, 101, 32, 108, 111, 118, 101, 115, 32, 114, 101, 97, 100, 105, 110,
        103, 32, 98, 111, 111, 107, 115>>,
      \* "Coffee tastes great in morning"
      <<67, 111, 102, 102, 101, 101, 32, 116, 97, 115, 116, 101, 115, 32, 103, 114,
        101, 97, 116, 32, 105, 110, 32, 109, 111, 114, 110, 105, 110, 103>>,
      \* "The dog chased the ball"
      <<84, 104, 101, 32, 100, 111, 103, 32, 99, 104, 97, 115, 101, 100, 32, 116,
        104, 101, 32, 98, 97, 108, 108>> }

\* the sentences offered by the example buttons under the tutorial
MainExamples ==
    (EmptyStateExamples \ {DefaultText}) \cup
    { \* "The red car drove fast"
      <<84, 104, 101, 32, 114, 101, 100, 32, 99, 97, 114, 32, 100, 114, 111, 118,
        101, 32, 102, 97, 115, 116>> }

ExampleTexts == EmptyStateExamples \cup MainExamples

Texts == ShortTexts \cup ExampleTexts

MaxTypedLen == 3

\* what the user types in the field in a session: spaces and the letter a
TypedTexts == UNION {[1..n -> {32, 97}] : n \in 0..MaxTypedLen}

\* the texts the field takes in a session
SessionTexts == TypedTexts \cup ExampleTexts

-----------------------------------------------------------------------------
(* Program constants *)

Null == -1          \* null of hoveredToken / selectedToken (no index is negative)

dModel == 4
dK == 2
dV == 2

WQ == << <<500, -300>>, <<200, 800>>, <<-400, 600>>, <<700, -100>> >>
WK == << <<300, 900>>, <<-200, 400>>, <<800, -500>>, <<100, 700>> >>
WV == << <<600, 200>>, <<400, -800>>, <<-300, 500>>, <<900, 100>> >>

Space == 32

\* what String.prototype.trim strips: WhiteSpace and LineTerminator code units
WhiteSpace == {9, 10, 11, 12, 13, 32, 160, 5760, 8232, 8233, 8239, 8287, 12288, 65279}
                  \cup (8192..8202)

-----------------------------------------------------------------------------
(* Tokenizer: inputText.trim().split(' ').filter(t => t.length > 0) *)

RECURSIVE trimStart(_)
trimStart(s) ==
    IF s # <<>> /\ Head(s) \in WhiteSpace THEN trimStart(Tail(s)) ELSE s

RECURSIVE trimEnd(_)
trimEnd(s) ==
    IF s # <<>> /\ s[Len(s)] \in WhiteSpace THEN trimEnd(SubSeq(s, 1, Len(s) - 1)) ELSE s

\* trim left out: the text is split as typed
trimNothing(s) == s

trim(s) == trimEnd(trimStart(s))

\* s.split(sep) for a one-unit separator: the pieces between separators, empty
\* pieces included ("" splits into the one piece "")
RECURSIVE split(_, _)
split(s, sep) ==
    IF \A i \in 1..Len(s) : s[i] # sep
    THEN <<s>>
    ELSE LET p == CHOOSE i \in 1..Len(s) : s[i] = sep /\ \A j \in 1..(i - 1) : s[j] # sep
         IN  <<SubSeq(s, 1, p - 1)>> \o split(SubSeq(s, p + 1, Len(s)), sep)

NonEmpty(t) == Len(t) > 0

tokensOf(text) == SelectSeq(split(trim(text), Space), NonEmpty)

-----------------------------------------------------------------------------
(* Rounding *)

\* Math.round(val * 100) / 100 of a value given in millionths, in thousandths:
\* Math.round is floor(x + 0.5)
round2(micro) == ((2 * micro + 10000) \div 20000) * 10

\* Math.floor in place of Math.round
floor3(x, sum) == (x * 1000) \div sum

\* Math.round(x / sum * 1000) / 100: the divisor one digit short
round3Scaled(x, sum) == ((2 * x * 1000 + sum) \div (2 * sum)) * 10

\* the 2-decimal rounding of the other stages used here as well
round3AsRound2(x, sum) == ((2 * x * 100 + sum) \div (2 * sum)) * 10

\* Math.round(x / sum * 1000) / 1000 for x, sum > 0, in thousandths
round3(x, sum) == (2 * x * 1000 + sum) \div (2 * sum)

-----------------------------------------------------------------------------
(* Embedder *)

\* Math.sin(i * 0.5) and Math.cos(i * 0.3) in millionths, i = 0..11
SinHalf == <<0, 479426, 841471, 997495, 909297, 598472, 141120, -350783, -756802,
             -977530, -958924, -705540>>
CosThird == <<1000000, 955336, 825336, 621610, 362358, 70737, -227202, -504846,
              -737394, -904072, -989992, -987480>>

charCodeAt(token, i) == token[i + 1]

\* base of token at index i, in millionths
base(token, i) ==
    << (8 * SinHalf[i + 1]) \div 10 + 200000,
       (6 * CosThird[i + 1]) \div 10 + 400000,
       Len(token) * 100000,
       (charCodeAt(token, 0) % 10) * 100000 >>

embeddingsOf(toks) ==
    IF Len(toks) > 0
    THEN [p \in 1..Len(toks) |->
            LET b == base(toks[p], p - 1) IN [c \in 1..Len(b) |-> round2(b[c])]]
    ELSE <<>>

-----------------------------------------------------------------------------
(* Matrix multiplication *)

\* the cartesian product of a sequence of sets, as a set of sequences
RECURSIVE seqProduct(_)
seqProduct(S) ==
    IF S = <<>> THEN {<<>>}
    ELSE {<<x>> \o r : x \in Head(S), r \in seqProduct(Tail(S))}

\* the k-loop started at k = 1 instead of k = 0
RECURSIVE accumulateFromOne(_, _, _, _, _)
accumulateFromOne(A, B, i, j, n) ==
    IF n <= 1 THEN 0 ELSE accumulateFromOne(A, B, i, j, n - 1) + A[i][n] * B[n][j]

\* the k-loop of matMul: result[i][j] after adding A[i][k] * B[k][j] for the
\* first n values of k (i, j as TLA+ indexes), in millionths
RECURSIVE accumulate(_, _, _, _, _)
accumulate(A, B, i, j, n) ==
    IF n = 0 THEN 0 ELSE accumulate(A, B, i, j, n - 1) + A[i][n] * B[n][j]

\* Math.round(val * 100) / 100 of an accumulated sum.  The sum is computed in
\* binary floating point: when the decimal sum lies exactly halfway between two
\* hundredths the double lies just below or just above it, and the result is the
\* lower or the upper hundredth accordingly; away from a tie it is the nearest.
roundedSum(micro) ==
    IF micro % 10000 = 5000 THEN {round2(micro) - 10, round2(micro)} ELSE {round2(micro)}

\* what Math.round(val * 100) / 100 gives for a sum that is not a number
NaN == "NaN"

\* result[i][j] as returned.  The k-loop runs over the rows of B: a row of A
\* with fewer entries than B has rows gives A[i][k] undefined for the last k,
\* undefined * B[k][j] is NaN and the sum stays NaN; entries of A beyond the
\* rows of B are never read.
entry(A, B, i, j) ==
    IF Len(A[i]) < Len(B) THEN {NaN} ELSE roundedSum(accumulate(A, B, i, j, Len(B)))

\* the result allocated with A.length - 1 rows
matMulShort(A, B) ==
    IF Len(A) = 0 \/ Len(B) = 0 THEN {<<>>}
    ELSE seqProduct([i \in 1..(Len(A) - 1) |->
            seqProduct([j \in 1..Len(B[1]) |-> entry(A, B, i, j)])])

\* the matrices matMul(A, B) can return
matMul(A, B) ==
    IF Len(A) = 0 \/ Len(B) = 0 THEN {<<>>}
    ELSE seqProduct([i \in 1..Len(A) |->
            seqProduct([j \in 1..Len(B[1]) |-> entry(A, B, i, j)])])

\* K[0].map((_, i) => K.map(row => row[i]))
transpose(M) == [i \in 1..Len(M[1]) |-> [r \in 1..Len(M) |-> M[r][i]]]

-----------------------------------------------------------------------------
(* Score scaling: Math.round(val / Math.sqrt(dK) * 100) / 100 *)

\* floor of the square root of n, found between lo and hi (lo*lo <= n < hi*hi)
RECURSIVE sqrtBetween(_, _, _)
sqrtBetween(n, lo, hi) ==
    IF hi - lo <= 1 THEN lo
    ELSE LET mid == (lo + hi) \div 2
         IN  IF mid * mid <= n THEN sqrtBetween(n, mid, hi) ELSE sqrtBetween(n, lo, mid)

sqrtFloor(n) == sqrtBetween(n, 0, 46341)
sqrtCeil(n) == IF sqrtFloor(n) * sqrtFloor(n) = n THEN sqrtFloor(n) ELSE sqrtFloor(n) + 1

\* floor(h / sqrt(dK) + 1/2) for an integer h, exactly:
\* h / sqrt(dK) = sqrt(h*h*dK) / dK, so 2 * h / sqrt(dK) = sqrt(4*h*h*dK) / dK
roundDivSqrt(h) ==
    IF h >= 0
    THEN (sqrtFloor(4 * h * h * dK) + dK) \div (2 * dK)
    ELSE -((sqrtCeil(4 * h * h * dK) - dK + 2 * dK - 1) \div (2 * dK))

\* val in thousandths (a multiple of 0.01), result in thousandths
scale(val) == roundDivSqrt(val \div 10) * 10

scaledScoresOf(sc) ==
    IF Len(sc) > 0
    THEN [i \in 1..Len(sc) |-> [j \in 1..Len(sc[i]) |-> scale(sc[i][j])]]
    ELSE <<>>

-----------------------------------------------------------------------------
(* Softmax *)

\* Math.exp(-h / 100) in millionths, h = 0..99
ExpHundredths ==
    <<1000000, 990050, 980199, 970446, 960789, 951229, 941765, 932394, 923116, 913931,
      904837, 895834, 886920, 878095, 869358, 860708, 852144, 843665, 835270, 826959,
      818731, 810584, 802519, 794534, 786628, 778801, 771052, 763379, 755784, 748264,
      740818, 733447, 726149, 718924, 711770, 704688, 697676, 690734, 683861, 677057,
      670320, 663650, 657047, 650509, 644036, 637628, 631284, 625002, 618783, 612626,
      606531, 600496, 594521, 588605, 582748, 576950, 571209, 565525, 559898, 554327,
      548812, 543351, 537944, 532592, 527292, 522046, 516851, 511709, 506617, 501576,
      496585, 491644, 486752, 481909, 477114, 472367, 467666, 463013, 458406, 453845,
      449329, 444858, 440432, 436049, 431711, 427415, 423162, 418952, 414783, 410656,
      406570, 402524, 398519, 394554, 390628, 386741, 382893, 379083, 375311, 371577>>

\* Math.exp(-m) in millionths, m = 0..14 (below one millionth from m = 15 on)
ExpUnits ==
    <<1000000, 367879, 135335, 49787, 18316, 6738, 2479, 912, 335, 123, 45, 17, 6, 2, 1>>

\* a * b / 10^6 for a, b in 0..10^6, without leaving 32 bits
mulMillionths(a, b) == ((a \div 1000) * b + ((a % 1000) * b) \div 1000) \div 1000

\* Math.exp(x) for x <= 0 in thousandths (a multiple of 0.01), in millionths
exp(x) ==
    LET h == (-x) \div 10
    IN  IF h \div 100 >= Len(ExpUnits) THEN 0
        ELSE mulMillionths(ExpHundredths[(h % 100) + 1], ExpUnits[(h \div 100) + 1])

\* Math.max(0, ...arr): a running maximum started at 0
maxWithZero(arr) ==
    CHOOSE m \in {0} \cup {arr[i] : i \in 1..Len(arr)} :
        m >= 0 /\ \A i \in 1..Len(arr) : arr[i] <= m

\* Math.max(...arr) of a non-empty array
max(arr) == CHOOSE m \in {arr[i] : i \in 1..Len(arr)} : \A i \in 1..Len(arr) : arr[i] <= m

\* exp.reduce((a, b) => a + b, 0)
RECURSIVE reduceSum(_)
reduceSum(a) == IF a = <<>> THEN 0 ELSE reduceSum(SubSeq(a, 1, Len(a) - 1)) + a[Len(a)]

softmax(arr) ==
    IF Len(arr) = 0 THEN <<>>
    ELSE LET maxVal == max(arr)
             e == [i \in 1..Len(arr) |-> exp(arr[i] - maxVal)]
             sum == reduceSum(e)
         IN  [i \in 1..Len(arr) |-> round3(e[i], sum)]

attentionWeightsOf(ss) ==
    IF Len(ss) > 0 THEN [i \in 1..Len(ss) |-> softmax(ss[i])] ELSE <<>>

-----------------------------------------------------------------------------
(* One run of the component function on the state the step leaves *)

\* the stages from the scaled scores on, for one outcome of the stages before
afterScores(toks, emb, q, k, v, sc) ==
    LET ss == scaledScoresOf(sc)
        aw == attentionWeightsOf(ss)
    IN  {<<toks, emb, q, k, v, sc, ss, aw, o>> :
            o \in (IF Len(aw) > 0 THEN matMul(aw, v) ELSE {<<>>})}

\* what one run of the component function can compute from a text, stage by
\* stage: <<tokens, embeddings, Q, K, V, scores, scaledScores, attentionWeights,
\* output>>, one tuple for every way the ties of matMul can fall
render(text) ==
    LET toks == tokensOf(text)
        emb == embeddingsOf(toks)
        QS == IF Len(emb) > 0 THEN matMul(emb, WQ) ELSE {<<>>}
        KS == IF Len(emb) > 0 THEN matMul(emb, WK) ELSE {<<>>}
        VS == IF Len(emb) > 0 THEN matMul(emb, WV) ELSE {<<>>}
    IN  UNION {UNION {afterScores(toks, emb, q, k, v, sc) :
                        sc \in (IF Len(q) > 0 /\ Len(k) > 0
                                THEN matMul(q, transpose(k)) ELSE {<<>>})} :
               q \in QS, k \in KS, v \in VS}

\* render for the texts the field takes in a session, computed once
SessionRenders == {<<text, render(text)>> : text \in SessionTexts}

rendersOf(text) ==
    IF text \in SessionTexts
    THEN (CHOOSE p \in SessionRenders : p[1] = text)[2]
    ELSE render(text)

renderPass ==
    \E r \in rendersOf(inputText') :
        /\ tokens' = r[1]
        /\ embeddings' = r[2]
        /\ Q' = r[3]
        /\ K' = r[4]
        /\ V' = r[5]
        /\ scores' = r[6]
        /\ scaledScores' = r[7]
        /\ attentionWeights' = r[8]
        /\ output' = r[9]

vars == <<inputText, currentStep, isPlaying, hoveredToken, selectedToken, showMath,
          animationPhase, rendered, tokens, embeddings, Q, K, V, scores, scaledScores,
          attentionWeights, output, row, shift, probs, probsShifted, storyTokens,
          storyRow, storyIndex, story, left, right, product, value, rounded, called>>

\* no function is called on its own
NoSoftmaxCall == row = <<>> /\ shift = 0 /\ probs = <<>> /\ probsShifted = <<>>
NoStoryCall == storyTokens = <<>> /\ storyRow = <<>> /\ storyIndex = 0 /\ story = <<>>
NoMatMulCall == left = <<>> /\ right = <<>> /\ product = <<>>
NoRoundCall == value = 0 /\ rounded = 0

\* the useState initial values, nothing computed yet
InitComponent(text) ==
    /\ inputText = text
    /\ currentStep = 0
    /\ isPlaying = FALSE
    /\ hoveredToken = Null
    /\ selectedToken = Null
    /\ showMath = FALSE
    /\ animationPhase = 0
    /\ rendered = FALSE
    /\ tokens = <<>>
    /\ embeddings = <<>>
    /\ Q = <<>>
    /\ K = <<>>
    /\ V = <<>>
    /\ scores = <<>>
    /\ scaledScores = <<>>
    /\ attentionWeights = <<>>
    /\ output = <<>>

\* the first run of the component function
Render ==
    /\ ~rendered
    /\ rendered' = TRUE
    /\ UNCHANGED <<inputText, uiVars, softmaxVars, storyVars, matMulVars, roundVars, called>>
    /\ renderPass

-----------------------------------------------------------------------------
(* The component: the event handlers and the two interval timers.  Every step
   ends with the component function run again on the new state.  The run is a
   deterministic computation, so a run on an unchanged text returns the matrices
   of the run before. *)

\* steps.length
StepCount == 5

\* the index of the step whose component is "attention", the one that shows
\* AttentionGraph
AttentionStep == 3

\* tokens.length === 0 ? the empty state : the tutorial
emptyState == Len(tokens) = 0

\* a run that computes nothing anew: the matrices of the run before are kept
rerenderStale ==
    /\ rendered' = TRUE
    /\ UNCHANGED engineVars
    /\ UNCHANGED <<softmaxVars, storyVars, matMulVars, roundVars, called>>

rerender ==
    /\ rendered' = TRUE
    /\ renderPass
    /\ (inputText' = inputText => engineVars' = engineVars)
    /\ UNCHANGED <<softmaxVars, storyVars, matMulVars, roundVars, called>>

\* a step that leaves the text alone: the matrices come out as before
rerenderSameText ==
    /\ UNCHANGED <<inputText, engineVars>>
    /\ rerender

\* onChange={(e) => setInputText(e.target.value)}, in either state
ChangeText ==
    /\ rendered
    /\ \E text \in TypedTexts : inputText' = text
    /\ UNCHANGED uiVars
    /\ rerender

\* onClick={() => setInputText(example)}
ClickExample ==
    /\ rendered
    /\ \E example \in (IF emptyState THEN EmptyStateExamples ELSE MainExamples) :
          inputText' = example
    /\ UNCHANGED uiVars
    /\ rerender

\* onClick={() => setIsPlaying(!isPlaying)}
TogglePlay ==
    /\ rendered /\ ~emptyState
    /\ isPlaying' = ~isPlaying
    /\ UNCHANGED <<currentStep, hoveredToken, selectedToken, showMath, animationPhase>>
    /\ rerenderSameText

\* onClick={() => setShowMath(!showMath)}
ToggleMath ==
    /\ rendered /\ ~emptyState
    /\ showMath' = ~showMath
    /\ UNCHANGED <<currentStep, isPlaying, hoveredToken, selectedToken, animationPhase>>
    /\ rerenderSameText

\* onClick={() => setCurrentStep(index)}
ClickStep ==
    /\ rendered /\ ~emptyState
    /\ \E index \in 0..(StepCount - 1) : currentStep' = index
    /\ UNCHANGED <<isPlaying, hoveredToken, selectedToken, showMath, animationPhase>>
    /\ rerenderSameText

\* the tokens AttentionGraph lays out
graphShown == rendered /\ ~emptyState /\ currentStep = AttentionStep

\* onMouseEnter={() => { if (interactive) setHoveredToken(i) }} of token i
MouseEnterTokenAt(i) ==
    /\ graphShown
    /\ i \in 0..(Len(tokens) - 1)
    /\ hoveredToken' = i
    /\ UNCHANGED <<currentStep, isPlaying, selectedToken, showMath, animationPhase>>
    /\ rerenderSameText

MouseEnterToken == \E i \in 0..(Len(tokens) - 1) : MouseEnterTokenAt(i)

\* onMouseLeave={() => { if (interactive) setHoveredToken(null) }}
MouseLeaveToken ==
    /\ graphShown
    /\ hoveredToken' = Null
    /\ UNCHANGED <<currentStep, isPlaying, selectedToken, showMath, animationPhase>>
    /\ rerenderSameText

\* onClick of token i:
\* setSelectedToken(selectedToken === i ? null : i); setHoveredToken(null)
ClickTokenAt(i) ==
    /\ graphShown
    /\ i \in 0..(Len(tokens) - 1)
    /\ selectedToken' = IF selectedToken = i THEN Null ELSE i
    /\ hoveredToken' = Null
    /\ UNCHANGED <<currentStep, isPlaying, showMath, animationPhase>>
    /\ rerenderSameText

ClickToken == \E i \in 0..(Len(tokens) - 1) : ClickTokenAt(i)

\* setInterval(() => setAnimationPhase(phase => (phase + 1) % 4), 1000) while playing
TickPhase ==
    /\ rendered /\ isPlaying
    /\ animationPhase' = (animationPhase + 1) % 4
    /\ UNCHANGED <<currentStep, isPlaying, hoveredToken, selectedToken, showMath>>
    /\ rerenderSameText

\* the step timer without the wrap to the first step
TickStepNoWrap ==
    /\ rendered /\ isPlaying
    /\ currentStep' = currentStep + 1
    /\ UNCHANGED <<isPlaying, hoveredToken, selectedToken, showMath, animationPhase>>
    /\ rerenderSameText

\* setInterval(() => setCurrentStep(current => current < steps.length - 1 ? current + 1 : 0), 4000)
TickStep ==
    /\ rendered /\ isPlaying
    /\ currentStep' = IF currentStep < StepCount - 1 THEN currentStep + 1 ELSE 0
    /\ UNCHANGED <<isPlaying, hoveredToken, selectedToken, showMath, animationPhase>>
    /\ rerenderSameText

Init ==
    /\ InitComponent(DefaultText)
    /\ NoSoftmaxCall /\ NoStoryCall /\ NoMatMulCall /\ NoRoundCall /\ called = FALSE

Next ==
    \/ Render
    \/ ChangeText
    \/ ClickExample
    \/ TogglePlay
    \/ ToggleMath
    \/ ClickStep
    \/ MouseEnterToken
    \/ MouseLeaveToken
    \/ ClickToken
    \/ TickPhase
    \/ TickStep

Spec == Init /\ [][Next]_vars

-----------------------------------------------------------------------------
(* The guided tour: the step buttons, play/pause and the two timers, with the
   text typed over (an empty text hides the buttons, the timers run on) *)

NextTour ==
    \/ Render
    \/ ChangeText
    \/ TogglePlay
    \/ ClickStep
    \/ TickPhase
    \/ TickStep

SpecTour == Init /\ [][NextTour]_vars

-----------------------------------------------------------------------------
(* Pointing at tokens: the step buttons (the graph is laid out in one step
   only), hover, leave and click on a token of the graph, with the text typed
   over *)

NextPointer ==
    \/ Render
    \/ ChangeText
    \/ ClickStep
    \/ MouseEnterToken
    \/ MouseLeaveToken
    \/ ClickToken

SpecPointer == Init /\ [][NextPointer]_vars

-----------------------------------------------------------------------------
(* A whole session: every handler and both timers, the pointer kept to the
   first MaxPointed tokens of the graph *)

MaxPointed == 1

MouseEnterFirstTokens == \E i \in 0..(MaxPointed - 1) : MouseEnterTokenAt(i)
ClickFirstTokens == \E i \in 0..(MaxPointed - 1) : ClickTokenAt(i)

NextSession ==
    \/ Render
    \/ ChangeText
    \/ ClickExample
    \/ TogglePlay
    \/ ToggleMath
    \/ ClickStep
    \/ MouseEnterFirstTokens
    \/ MouseLeaveToken
    \/ ClickFirstTokens
    \/ TickPhase
    \/ TickStep

SpecSession == Init /\ [][NextSession]_vars

-----------------------------------------------------------------------------
(* The pipeline as a function of the text: any text in the field, one render *)

InitEngine ==
    /\ \E text \in Texts : InitComponent(text)
    /\ NoSoftmaxCall /\ NoStoryCall /\ NoMatMulCall /\ NoRoundCall /\ called = FALSE

SpecEngine == InitEngine /\ [][Render]_vars

-----------------------------------------------------------------------------
(* softmax as a function of its row: any row, one call; and the same row with a
   constant added to every entry *)

MaxRowLen == 3

\* scores in thousandths, multiples of 0.01 as scaledScores holds them
ScoreValues == {-13000, -12000, -10, 0, 700}
Shifts == {-500, 10, 13000}

Rows == UNION {[1..n -> ScoreValues] : n \in 0..MaxRowLen}

plus(a, c) == [i \in 1..Len(a) |-> a[i] + c]

InitSoftmax ==
    /\ InitComponent(<<>>)
    /\ row \in Rows
    /\ shift \in Shifts
    /\ probs = <<>>
    /\ probsShifted = <<>>
    /\ NoStoryCall /\ NoMatMulCall /\ NoRoundCall
    /\ called = FALSE

CallSoftmax ==
    /\ ~called
    /\ called' = TRUE
    /\ probs' = softmax(row)
    /\ probsShifted' = softmax(plus(row, shift))
    /\ UNCHANGED <<inputText, uiVars, rendered, engineVars, row, shift, storyVars,
                   matMulVars, roundVars>>

SpecSoftmax == InitSoftmax /\ [][CallSoftmax]_vars

-----------------------------------------------------------------------------
(* generateAttentionStory *)

\* 'unknown'
Unknown == <<117, 110, 107, 110, 111, 119, 110>>

\* what a template literal prints for an undefined word: undefined
Undefined == <<117, 110, 100, 101, 102, 105, 110, 101, 100>>

\* an argument that is null or undefined (!attentionRow, !allTokens): a value
\* that is no array, so that its length is never taken
Missing == [i \in {0} |-> 0]

\* attentionRow.map((weight, idx) => ({weight: weight || 0, idx, token: allTokens[idx] || 'unknown'}))
attentionItems(allTokens, attentionRow) ==
    [p \in 1..Len(attentionRow) |->
        [weight |-> attentionRow[p],
         idx    |-> p - 1,
         token  |-> IF p <= Len(allTokens) /\ Len(allTokens[p]) > 0
                    THEN allTokens[p] ELSE Unknown]]

isKnownAlways(item) == TRUE

\* .filter(item => item.token !== 'unknown')
isKnown(item) == item.token # Unknown

\* .sort((a, b) => b.weight - a.weight): Array.prototype.sort is stable, so the
\* result is the one insertion in array order gives, each item placed after the
\* items of greater or equal weight
RECURSIVE insertByWeight(_, _)
insertByWeight(sorted, item) ==
    IF sorted = <<>> THEN <<item>>
    ELSE IF Head(sorted).weight >= item.weight
         THEN <<Head(sorted)>> \o insertByWeight(Tail(sorted), item)
         ELSE <<item>> \o sorted

RECURSIVE sortByWeight(_)
sortByWeight(items) ==
    IF items = <<>> THEN <<>>
    ELSE insertByWeight(sortByWeight(SubSeq(items, 1, Len(items) - 1)), items[Len(items)])

\* Math.round(weight * 100): floor(x + 0.5) of the double product, which for
\* 0.145, 0.285, 0.565 and 0.575 lies just below the half
percent(weight) ==
    IF weight \in {145, 285, 565, 575} THEN (weight + 5) \div 10 - 1
    ELSE (weight + 5) \div 10

\* the sentences, by template and by what fills the slots in order
calculating(word) ==
    [template |-> "calculating", word |-> word, names |-> <<>>, percents |-> <<>>]

generateAttentionStory(word, allTokens, attentionRow, wordIndex) ==
    IF \/ attentionRow = Missing \/ Len(attentionRow) = 0
       \/ allTokens = Missing \/ Len(allTokens) = 0
    THEN calculating(word)
    ELSE LET sortedAttention ==
                 sortByWeight(SelectSeq(attentionItems(allTokens, attentionRow), isKnown))
         IN  IF Len(sortedAttention) < 2 THEN calculating(word)
             ELSE LET topAttention ==
                          SubSeq(sortedAttention, 1,
                                 IF Len(sortedAttention) < 3 THEN Len(sortedAttention) ELSE 3)
                  IN  IF topAttention[1].idx = wordIndex
                      THEN [template |-> "itself", word |-> word,
                            names |-> <<topAttention[2].token>>,
                            percents |-> <<percent(topAttention[1].weight),
                                           percent(topAttention[2].weight)>>]
                      ELSE [template |-> "interested", word |-> word,
                            names |-> <<topAttention[1].token, topAttention[2].token>>,
                            percents |-> <<percent(topAttention[1].weight),
                                           percent(topAttention[2].weight)>>]

-----------------------------------------------------------------------------
(* generateAttentionStory as a function of its arguments: any token list or
   none, any row of weights softmax returns or none, of the same length as the
   token list (as AttentionGraph calls it for the displayed token) or not *)

MaxStoryLen == 3

\* "a", "cat", "unknown"
Words == {<<97>>, <<99, 97, 116>>, Unknown}
StoryScores == {0, 500, 1000}

TokenLists == UNION {[1..n -> Words] : n \in 0..MaxStoryLen}
WeightRows == UNION {{softmax(r) : r \in [1..n -> StoryScores]} : n \in 0..MaxStoryLen}

InitStory ==
    /\ InitComponent(<<>>)
    /\ NoSoftmaxCall /\ NoMatMulCall /\ NoRoundCall
    /\ storyTokens \in TokenLists \cup {Missing}
    /\ storyIndex \in 0..(MaxStoryLen - 1)
    /\ storyRow \in WeightRows \cup {Missing}
    /\ story = <<>>
    /\ called = FALSE

\* generateAttentionStory(tokenList[displayToken], tokenList, weights[displayToken] || [], displayToken)
CallStory ==
    /\ ~called
    /\ called' = TRUE
    /\ story' = generateAttentionStory(
                    IF storyTokens # Missing /\ storyIndex < Len(storyTokens)
                    THEN storyTokens[storyIndex + 1] ELSE Undefined,
                    storyTokens, storyRow, storyIndex)
    /\ UNCHANGED <<inputText, uiVars, rendered, engineVars, softmaxVars,
                   storyTokens, storyRow, storyIndex, matMulVars, roundVars>>

SpecStory == InitStory /\ [][CallStory]_vars

-----------------------------------------------------------------------------
(* matMul as a function of its arguments: any two matrices of up to MaxDim rows
   and columns, of matching dimensions or not, or an empty one *)

MaxDim == 2

\* -0.3 and 0.5
Entries == {-300, 500}

Matrices == UNION {[1..r -> [1..c -> Entries]] : r \in 1..MaxDim, c \in 1..MaxDim}

InitMatMul ==
    /\ InitComponent(<<>>)
    /\ NoSoftmaxCall /\ NoStoryCall /\ NoRoundCall
    /\ left \in Matrices \cup {<<>>}
    /\ right \in Matrices \cup {<<>>}
    /\ product = <<>>
    /\ called = FALSE

CallMatMul ==
    /\ ~called
    /\ called' = TRUE
    /\ product' \in matMul(left, right)
    /\ UNCHANGED <<inputText, uiVars, rendered, engineVars, softmaxVars, storyVars,
                   left, right, roundVars>>

SpecMatMul == InitMatMul /\ [][CallMatMul]_vars

-----------------------------------------------------------------------------
(* The 2-decimal rounding as a function of its argument: the multiples of 1/8
   up to MaxEighths of them, which a double holds exactly and of which every
   other one lies halfway between two hundredths *)

MaxEighths == 40

\* 1/8 in millionths
Eighth == 125000

Values == {k * Eighth : k \in (-MaxEighths)..MaxEighths}

InitRound ==
    /\ InitComponent(<<>>)
    /\ NoSoftmaxCall /\ NoStoryCall /\ NoMatMulCall
    /\ value \in Values
    /\ rounded = 0
    /\ called = FALSE

\* Math.round(val * 100) / 100
CallRound ==
    /\ ~called
    /\ called' = TRUE
    /\ rounded' = round2(value)
    /\ UNCHANGED <<inputText, uiVars, rendered, engineVars, softmaxVars, storyVars,
                   matMulVars, value>>

SpecRound == InitRound /\ [][CallRound]_vars

-----------------------------------------------------------------------------
(* Properties of the pipeline (SpecEngine) *)

abs(x) == IF x < 0 THEN -x ELSE x

rowSum(r) == reduceSum(r)

isWhiteSpaceOnly(text) == \A i \in 1..Len(text) : text[i] \in WhiteSpace

\* C1 as stated: every row of attentionWeights sums to 1.0 within 0.001,
\* whatever the row length.
C1_RowSumWithinThousandth ==
    rendered => \A i \in 1..Len(attentionWeights) :
                    abs(rowSum(attentionWeights[i]) - 1000) <= 1

\* C1 amended: every row of attentionWeights of n entries sums to 1.0 within
\* n x 0.0005 (each entry is rounded to 3 decimals, half a thousandth of error each).
C1_RowSumWithinHalfThousandthPerEntry ==
    rendered => \A i \in 1..Len(attentionWeights) :
                    2 * abs(rowSum(attentionWeights[i]) - 1000) <= Len(attentionWeights[i])

\* a row of five or more weights whose sum is 0.002 away from 1.0
C1_Witness ==
    /\ rendered
    /\ \E i \in 1..Len(attentionWeights) :
          /\ Len(attentionWeights[i]) >= 5
          /\ abs(rowSum(attentionWeights[i]) - 1000) = 2

\* C2: every entry of every row of attentionWeights lies in [0, 1].
C2_WeightsInUnitInterval ==
    rendered => \A i \in 1..Len(attentionWeights) :
                    \A j \in 1..Len(attentionWeights[i]) :
                        /\ attentionWeights[i][j] \in Int
                        /\ 0 <= attentionWeights[i][j]
                        /\ attentionWeights[i][j] <= 1000

\* weights computed for several tokens, one of them below a half
C2_Witness ==
    /\ rendered
    /\ Len(attentionWeights) >= 2
    /\ \E i \in 1..Len(attentionWeights) : \E j \in 1..Len(attentionWeights[i]) :
          attentionWeights[i][j] > 0 /\ attentionWeights[i][j] < 500

\* C3: an empty or whitespace-only text gives an empty token list and empty
\* embeddings, Q, K, V, scores, scaledScores, attentionWeights and output.
C3_EmptyInputEmptyStages ==
    (rendered /\ isWhiteSpaceOnly(inputText)) =>
        /\ tokens = <<>>
        /\ embeddings = <<>>
        /\ Q = <<>> /\ K = <<>> /\ V = <<>>
        /\ scores = <<>>
        /\ scaledScores = <<>>
        /\ attentionWeights = <<>>
        /\ output = <<>>

\* a text of spaces and a tab has been rendered
C3_Witness ==
    /\ rendered
    /\ Len(inputText) >= 2
    /\ isWhiteSpaceOnly(inputText)
    /\ \E i \in 1..Len(inputText) : inputText[i] = 9
    /\ \E i \in 1..Len(inputText) : inputText[i] = Space
    /\ tokens = <<>> /\ output = <<>>

isMatrix(M, rows, cols) ==
    /\ Len(M) = rows
    /\ \A i \in 1..Len(M) : Len(M[i]) = cols

\* C4: with n tokens, embeddings is n x 4, Q, K and V are n x 2, scores,
\* scaledScores and attentionWeights are n x n and output is n x 2.
C4_OneRowPerToken ==
    rendered =>
        LET n == Len(tokens)
        IN  /\ isMatrix(embeddings, n, dModel)
            /\ isMatrix(Q, n, dK)
            /\ isMatrix(K, n, dK)
            /\ isMatrix(V, n, dV)
            /\ isMatrix(scores, n, n)
            /\ isMatrix(scaledScores, n, n)
            /\ isMatrix(attentionWeights, n, n)
            /\ isMatrix(output, n, dV)

\* the matrices of a text of three or more tokens
C4_Witness ==
    /\ rendered
    /\ Len(tokens) >= 3
    /\ isMatrix(scores, Len(tokens), Len(tokens))
    /\ isMatrix(output, Len(tokens), dV)

RECURSIVE flatten(_)
flatten(ss) == IF ss = <<>> THEN <<>> ELSE Head(ss) \o flatten(Tail(ss))

notWhiteSpace(c) == c \notin WhiteSpace

\* C5: the tokenizer splits the trimmed input on whitespace: every token is
\* non-empty and holds no whitespace character, and the tokens are the runs of
\* non-whitespace characters of the input, in input order.
C5_TokensHoldNoWhitespace ==
    rendered =>
        /\ \A p \in 1..Len(tokens) :
              /\ Len(tokens[p]) > 0
              /\ \A i \in 1..Len(tokens[p]) : tokens[p][i] \notin WhiteSpace
        /\ flatten(tokens) = SelectSeq(inputText, notWhiteSpace)

\* the code point of the first character of a string of UTF-16 code units
codePointAt0(token) ==
    IF /\ Len(token) >= 2
       /\ token[1] \in 55296..56319
       /\ token[2] \in 56320..57343
    THEN 65536 + (token[1] - 55296) * 1024 + (token[2] - 56320)
    ELSE token[1]

\* C6: every embedding has 4 components, the third is length(token) x 0.1 and the
\* fourth is (code point of the token's first character mod 10) x 0.1, for any
\* first character, those above 0xFFFF included.
C6_FourthComponentFromCodePoint ==
    rendered =>
        \A p \in 1..Len(tokens) :
            /\ Len(embeddings[p]) = 4
            /\ embeddings[p][3] = Len(tokens[p]) * 100
            /\ embeddings[p][4] = (codePointAt0(tokens[p]) % 10) * 100

\* the sum over k of a[k] x b[k], in millionths
dotProduct(a, b) == reduceSum([k \in 1..Len(a) |-> a[k] * b[k]])

column(M, j) == [k \in 1..Len(M) |-> M[k][j]]

\* r (thousandths) is a multiple of 0.01 at most 0.005 from the sum (millionths)
isRounded2(r, micro) == r % 10 = 0 /\ abs(r * 1000 - micro) <= 5000

\* P is the m x q product of A (m x p) and B (p x q), every element rounded
isProduct(P, A, B) ==
    /\ isMatrix(P, Len(A), Len(B[1]))
    /\ \A i \in 1..Len(A) : Len(A[i]) = Len(B)
    /\ \A i \in 1..Len(A) : \A j \in 1..Len(B[1]) :
          isRounded2(P[i][j], dotProduct(A[i], column(B, j)))

\* C7: Q, K, V are the products of embeddings with WQ, WK, WV, scores[i][j] is
\* the dot product of row i of Q with row j of K, and output is the product of
\* attentionWeights with V; every element is the sum over k of A[i][k] x B[k][j]
\* rounded to 2 decimals.
C7_MatMulIsRoundedProduct ==
    (rendered /\ Len(tokens) > 0) =>
        /\ isProduct(Q, embeddings, WQ)
        /\ isProduct(K, embeddings, WK)
        /\ isProduct(V, embeddings, WV)
        /\ isMatrix(scores, Len(Q), Len(K))
        /\ \A i \in 1..Len(Q) : \A j \in 1..Len(K) :
              isRounded2(scores[i][j], dotProduct(Q[i], K[j]))
        /\ isProduct(output, attentionWeights, V)

\* products computed for three or more tokens, one element of Q off a multiple
\* of 0.01 before rounding
C7_Witness ==
    /\ rendered
    /\ Len(tokens) >= 3
    /\ isProduct(output, attentionWeights, V)
    /\ \E i \in 1..Len(Q) : \E j \in 1..dK :
          dotProduct(embeddings[i], column(WQ, j)) % 10000 # 0

-----------------------------------------------------------------------------
(* Properties of softmax (SpecSoftmax) *)

allEqual(a) == \A i \in 1..Len(a) : a[i] = a[1]

\* 1/n rounded to 3 decimals, in thousandths
oneOver(n) == (2 * 1000 + n) \div (2 * n)

\* C8: softmax of a row of n >= 1 equal entries is n entries equal to 1/n rounded
\* to 3 decimals: [1.0] for one entry, [0.5, 0.5] for two.
C8_EqualScoresEqualWeights ==
    (called /\ Len(row) >= 1 /\ allEqual(row)) =>
        /\ Len(probs) = Len(row)
        /\ \A i \in 1..Len(probs) : probs[i] = oneOver(Len(row))
        /\ (Len(row) = 1 => probs = <<1000>>)
        /\ (Len(row) = 2 => probs = <<500, 500>>)

\* softmax has returned for a row of three equal non-zero scores
C8_Witness ==
    /\ called
    /\ Len(row) = 3
    /\ allEqual(row)
    /\ row[1] # 0
    /\ probs = <<333, 333, 333>>

\* C9: softmax(x + c) returns the same row as softmax(x).
C9_ShiftInvariant ==
    called => probsShifted = probs

\* softmax has returned for a row of unequal scores and for the row shifted by c
C9_Witness ==
    /\ called
    /\ Len(row) >= 2
    /\ ~allEqual(row)
    /\ shift # 0
    /\ \E i \in 1..Len(probs) : probs[i] > 0 /\ probs[i] < 1000
    /\ probsShifted = probs

-----------------------------------------------------------------------------
(* Properties of generateAttentionStory (SpecStory) *)

\* the position (from 0) of the largest weight of r outside `skip`, the lowest
\* such position on a tie
topIndex(r, skip) ==
    CHOOSE b \in (0..(Len(r) - 1)) \ skip :
        \A o \in (0..(Len(r) - 1)) \ skip :
            r[o + 1] < r[b + 1] \/ (r[o + 1] = r[b + 1] /\ b <= o)

\* the tokens a sentence names, in order
namedTokens(st) == IF st.template = "itself" THEN <<st.word>> \o st.names ELSE st.names

\* C10: for a token list of at least 2 tokens (any strings) and a row of the same
\* length, the first token the sentence names is the one at the position of the
\* largest weight and the second the one at the position of the second-largest
\* weight, ties broken by ascending index.
C10_StoryNamesTopTwo ==
    (/\ called /\ storyTokens # Missing /\ storyRow # Missing
     /\ Len(storyTokens) >= 2 /\ Len(storyRow) = Len(storyTokens)) =>
        LET first == topIndex(storyRow, {})
            second == topIndex(storyRow, {first})
        IN  /\ story.template # "calculating"
            /\ namedTokens(story) = <<storyTokens[first + 1], storyTokens[second + 1]>>

\* the positions of the row whose entry stays in the ranking: those with a token
\* that is neither absent, nor empty, nor the word unknown
ranked(allTokens, attentionRow) ==
    {p \in 1..Len(attentionRow) :
        /\ p <= Len(allTokens)
        /\ allTokens[p] # <<>>
        /\ allTokens[p] # Unknown}

\* the arguments for which the placeholder sentence is due
degenerate(allTokens, attentionRow) ==
    \/ attentionRow = Missing \/ allTokens = Missing
    \/ Len(attentionRow) = 0 \/ Len(allTokens) = 0
    \/ Cardinality(ranked(allTokens, attentionRow)) < 2

\* C11: when the attention row is missing or empty, the token list is missing or
\* empty, or fewer than 2 ranked entries remain, generateAttentionStory returns
\* the placeholder sentence for the word, which names no entry and prints no
\* percentage.
C11_PlaceholderWhenDegenerate ==
    (called /\ degenerate(storyTokens, storyRow)) =>
        /\ story = calculating(story.word)
        /\ story.names = <<>> /\ story.percents = <<>>

\* the placeholder returned for a row of two weights of which one entry remains
C11_Witness ==
    /\ called
    /\ storyTokens # Missing /\ storyRow # Missing
    /\ Len(storyRow) = 2 /\ Len(storyTokens) = 2
    /\ Cardinality(ranked(storyTokens, storyRow)) = 1
    /\ story.template = "calculating"

-----------------------------------------------------------------------------
(* Properties of matMul (SpecMatMul) *)

\* P holds entries: every entry matMul fills in is a number or NaN
isResult(P) == Len(P) > 0 /\ \A i \in 1..Len(P) : Len(P[i]) > 0

\* both matrices non-empty, the column count of A not the row count of B
mismatched(A, B) == Len(A) > 0 /\ Len(B) > 0 /\ Len(A[1]) # Len(B)

\* C12: for non-empty A and B with the column count of A different from the row
\* count of B, matMul returns no matrix of numbers or NaN values.
C12_MismatchReturnsNoMatrix ==
    (called /\ mismatched(left, right)) => ~isResult(product)

-----------------------------------------------------------------------------
(* Properties of the 2-decimal rounding (SpecRound) *)

\* the value lies exactly halfway between two hundredths
isHalfway(micro) == micro % 10000 = 5000

\* the hundredth away from zero of a halfway value, in thousandths
awayFromZero(micro) == IF micro < 0 THEN -round2(-micro) ELSE round2(micro)

\* C13: a value exactly halfway between two hundredths is rounded to the
\* hundredth away from zero, for negative values as for positive ones.
C13_HalfwayRoundsAwayFromZero ==
    (called /\ isHalfway(value)) => rounded = awayFromZero(value)

-----------------------------------------------------------------------------
(* Properties of the guided tour (SpecTour) *)

\* currentStep is an index of steps, animationPhase one of the four phases
tourInRange == currentStep \in 0..(StepCount - 1) /\ animationPhase \in 0..3

\* what a step of the tour may do to currentStep and animationPhase
tourStep ==
    /\ (TickStep \/ TickPhase) => isPlaying
    /\ TickStep => currentStep' = (currentStep + 1) % StepCount
    /\ animationPhase' # animationPhase =>
           isPlaying /\ animationPhase' = (animationPhase + 1) % 4
    /\ (~isPlaying /\ currentStep' # currentStep) => ClickStep

\* C16: currentStep stays in 0..4 and animationPhase in 0..3; a timer tick
\* happens only while the tour is playing, the step tick advancing currentStep
\* by one with a wrap from the last step to the first and the phase tick
\* advancing animationPhase modulo 4; while the tour is paused currentStep
\* changes only through a step-button click.
C16_TourStaysInRange == [](tourInRange) /\ [][tourStep]_vars

\* the tour playing on the last step in the last phase: the next ticks wrap both
C16_Witness ==
    /\ rendered /\ isPlaying
    /\ currentStep = StepCount - 1
    /\ animationPhase = 3

-----------------------------------------------------------------------------
(* Properties of the pointed token (SpecPointer) *)

\* null or an index of the current token list
isTokenIndex(t) == t = Null \/ t \in 0..(Len(tokens) - 1)

\* C15: after every render, hoveredToken and selectedToken are each null or a
\* valid index into the current token list.
C15_PointedTokenExists ==
    rendered => isTokenIndex(hoveredToken) /\ isTokenIndex(selectedToken)

-----------------------------------------------------------------------------
(* Properties of a session (SpecSession) *)

\* the token list and the matrices in view are a result of the pipeline run on
\* the text
isRenderOf(text) ==
    /\ tokens = tokensOf(text)
    /\ embeddings = embeddingsOf(tokens)
    /\ engineVars \in rendersOf(text)

\* C14: after every operation the token list and the matrices are those computed
\* from the current input text, and an operation that leaves the text alone
\* leaves them unchanged.
C14_MatricesFollowText ==
    /\ [](rendered => isRenderOf(inputText))
    /\ [][(rendered /\ inputText' = inputText) => engineVars' = engineVars]_vars

\* a typed two-token text in view after the default one, a token selected, the
\* tour playing past its first phase with the math shown
C14_Witness ==
    /\ rendered
    /\ inputText = <<97, 32, 97>>
    /\ isRenderOf(inputText)
    /\ selectedToken = 0
    /\ isPlaying /\ showMath
    /\ currentStep = 2 /\ animationPhase = 2

====
